---- MODULE Spec2Model ----
(***************************************************************************)
(* Model of the practice validator: the Threshold Registry and the         *)
(* Aggregation Engine (quality_wheel.py), the Decision Policy and the      *)
(* orchestrator (validator.py) and the analyzers' analyze entry points     *)
(* (analyzers/base.py, reproducibility.py, utility.py).                    *)
(*                                                                         *)
(* Numbers.  Sub-metric values and min_value are in units of 1.0.  Weights *)
(* are in units of 1/WeightUnit, so a criterion score (sum of value *      *)
(* weight) is in units of 1/WeightUnit.  final_score is a mean of at most  *)
(* six criterion scores; it is kept exact in units of 1/FinalUnit.         *)
(* Python's None is the integer None (no score is negative).               *)
(***************************************************************************)
EXTENDS Integers, Sequences, FiniteSets, TLC

VARIABLES
    thresholds,   \* QualityWheel.thresholds: criterion -> metric -> CriterionThreshold
    scores,       \* the argument of evaluate_practice, an insertion-ordered dict
    pc,           \* position of the caller of the engine / decision policy
    evaluation,   \* outcome of evaluate_practice (returned result or raised error)
    decision,     \* value returned by _make_decision
    analysis,     \* per analyzer: outcome of driving analyze(practice) to completion
    vp,           \* activation record of PracticeValidator.validate_practice
    adjust,       \* number and arguments of the adjust_threshold calls made
    calls,        \* activation records of concurrent evaluate_practice calls
    deliveries,   \* MessageConsumer: the deliveries handled and how each was settled
    revalidation, \* activation record of PracticeRevalidator.revalidate_all
    consumer      \* activation record of MessageConsumer.start

vars == <<thresholds, scores, pc, evaluation, decision, analysis, vp, adjust, calls,
          deliveries, revalidation, consumer>>

---------------------------------------------------------------------------
(* Bounds of the model *)

MaxCriteria == 2      \* criteria in one evaluate_practice argument
MaxEntries == 2       \* sub-metric entries in one evaluate_practice argument
MaxDecideMissing == 2 \* length of missing_required handed directly to _make_decision
MaxAdjust == 2        \* adjust_threshold calls on one registry
MaxCalls == 2         \* evaluate_practice calls in progress or finished on one registry
MaxDeliveries == 2    \* deliveries handed to MessageConsumer._on_message
MaxPractices == 2     \* practice ids returned by get_all_practices
MaxIterations == 4    \* iterations of the while loop of MessageConsumer.start

(* Representation of numbers *)

WeightUnit == 20
MeanUnit == 60
FinalUnit == WeightUnit * MeanUnit
None == -1

---------------------------------------------------------------------------
(* Threshold Registry *)

CriterionThreshold(min_value, weight, required) ==
    [min_value |-> min_value, weight |-> weight, required |-> required]

DefaultThresholds ==
    [ Q   |-> [ fullness    |-> CriterionThreshold(6, 8, TRUE),
                structure   |-> CriterionThreshold(6, 6, TRUE),
                examples    |-> CriterionThreshold(6, 3, FALSE),
                limitations |-> CriterionThreshold(6, 3, FALSE) ],
      R   |-> [ steps_clarity |-> CriterionThreshold(6, 8, TRUE),
                requirements  |-> CriterionThreshold(6, 6, TRUE),
                resources     |-> CriterionThreshold(6, 6, TRUE) ],
      U   |-> [ problem_clarity |-> CriterionThreshold(6, 7, TRUE),
                benefits        |-> CriterionThreshold(6, 7, TRUE),
                efficiency      |-> CriterionThreshold(6, 6, FALSE) ],
      A   |-> [ universality |-> CriterionThreshold(6, 7, TRUE),
                scalability  |-> CriterionThreshold(6, 7, TRUE),
                constraints  |-> CriterionThreshold(6, 6, FALSE) ],
      I   |-> [ novelty         |-> CriterionThreshold(6, 8, FALSE),
                tech_complexity |-> CriterionThreshold(6, 6, FALSE),
                potential       |-> CriterionThreshold(6, 6, TRUE) ],
      Rel |-> [ empirical_validation |-> CriterionThreshold(6, 7, TRUE),
                methodology          |-> CriterionThreshold(6, 5, TRUE),
                adaptability         |-> CriterionThreshold(6, 4, FALSE),
                external_validation  |-> CriterionThreshold(6, 4, FALSE) ] ]

\* an Optional argument: NoArg is None, Some(x) a supplied value
NoArg == <<>>

Some(x) == <<x>>

\* the fields that were not supplied are reset to the dataclass defaults
adjust_threshold_ResetsOthers(th, criterion, metric, min_value, weight, required) ==
    IF criterion \in DOMAIN th /\ metric \in DOMAIN th[criterion]
    THEN [th EXCEPT ![criterion][metric] =
            CriterionThreshold(
                IF min_value # NoArg THEN min_value[1] ELSE 6,
                IF weight # NoArg THEN weight[1] ELSE WeightUnit,
                IF required # NoArg THEN required[1] ELSE TRUE)]
    ELSE th

\* QualityWheel.adjust_threshold
\* a sub-metric the criterion does not hold is created with the defaults of
\* CriterionThreshold and the supplied fields
adjust_threshold_AddsMissing(th, criterion, metric, min_value, weight, required) ==
    IF criterion \in DOMAIN th
    THEN LET threshold == IF metric \in DOMAIN th[criterion]
                          THEN th[criterion][metric]
                          ELSE CriterionThreshold(6, WeightUnit, TRUE)
             t1 == IF min_value # NoArg
                   THEN [threshold EXCEPT !.min_value = min_value[1]] ELSE threshold
             t2 == IF weight # NoArg THEN [t1 EXCEPT !.weight = weight[1]] ELSE t1
             t3 == IF required # NoArg THEN [t2 EXCEPT !.required = required[1]] ELSE t2
         IN [th EXCEPT ![criterion] =
                [x \in (DOMAIN @) \cup {metric} |-> IF x = metric THEN t3 ELSE @[x]]]
    ELSE th

adjust_threshold(th, criterion, metric, min_value, weight, required) ==
    IF criterion \in DOMAIN th /\ metric \in DOMAIN th[criterion]
    THEN LET threshold == th[criterion][metric]
             t1 == IF min_value # NoArg
                   THEN [threshold EXCEPT !.min_value = min_value[1]]
                   ELSE threshold
             t2 == IF weight # NoArg THEN [t1 EXCEPT !.weight = weight[1]] ELSE t1
             t3 == IF required # NoArg THEN [t2 EXCEPT !.required = required[1]]
                   ELSE t2
         IN [th EXCEPT ![criterion][metric] = t3]
    ELSE th

---------------------------------------------------------------------------
(* Python dicts.  A dict that the code iterates is a sequence of entries   *)
(* in insertion order with distinct keys; a dict that is only indexed or   *)
(* averaged is a function.                                                 *)

EmptyDict == [k \in {} |-> k]

DictSet(d, k, v) == [x \in (DOMAIN d) \cup {k} |-> IF x = k THEN v ELSE d[x]]

DetailKeys(details) == {details[i].metric : i \in 1..Len(details)}

ScoreKeys(s) == {s[i].criterion : i \in 1..Len(s)}

RECURSIVE SumSeq(_)
SumSeq(s) == IF s = <<>> THEN 0 ELSE Head(s) + SumSeq(Tail(s))

RECURSIVE SumScores(_)
SumScores(d) ==
    IF DOMAIN d = {} THEN 0
    ELSE LET k == CHOOSE x \in DOMAIN d : TRUE
         IN d[k].score + SumScores([x \in (DOMAIN d) \ {k} |-> d[x]])

---------------------------------------------------------------------------
(* Criterion Evaluator: QualityWheel._evaluate_criterion *)

\* a value equal to min_value is rejected
ClassifiedValid_Strict(threshold, score) ==
    score > threshold.min_value \/ ~threshold.required

\* the required flag is not consulted
ClassifiedValid_MinOnly(threshold, score) ==
    score >= threshold.min_value

\* the test that puts a configured sub-metric into valid_metrics
ClassifiedValid(threshold, score) ==
    score >= threshold.min_value \/ ~threshold.required

\* the values of the valid sub-metrics are summed without their weights
evaluate_criterion_Unweighted(th, criterion, metrics) ==
    LET details == metrics.details
        tc == th[criterion]
        Configured(e) == e.metric \in DOMAIN tc
        IsValidMetric(e) == ClassifiedValid(tc[e.metric], e.value)
        IsInvalidMetric(e) == ~IsValidMetric(e)
        configured == SelectSeq(details, Configured)
        valid_metrics == SelectSeq(configured, IsValidMetric)
        invalid_metrics == SelectSeq(configured, IsInvalidMetric)
        required_invalid ==
            \E i \in 1..Len(invalid_metrics) : tc[invalid_metrics[i].metric].required
        is_valid == IF invalid_metrics # <<>> THEN ~required_invalid ELSE TRUE
        weighted_score ==
            SumSeq([i \in 1..Len(valid_metrics) |-> valid_metrics[i].value * WeightUnit])
    IN [score |-> weighted_score,
        details |-> valid_metrics \o invalid_metrics,
        explanation |-> metrics.explanation,
        is_valid |-> is_valid]

\* the analyzer's own score is taken over as the criterion score
evaluate_criterion_TrustsScore(th, criterion, metrics) ==
    LET details == metrics.details
        tc == th[criterion]
        Configured(e) == e.metric \in DOMAIN tc
        IsValidMetric(e) == ClassifiedValid(tc[e.metric], e.value)
        IsInvalidMetric(e) == ~IsValidMetric(e)
        configured == SelectSeq(details, Configured)
        valid_metrics == SelectSeq(configured, IsValidMetric)
        invalid_metrics == SelectSeq(configured, IsInvalidMetric)
        required_invalid ==
            \E i \in 1..Len(invalid_metrics) : tc[invalid_metrics[i].metric].required
        is_valid == IF invalid_metrics # <<>> THEN ~required_invalid ELSE TRUE
    IN [score |-> metrics.score * WeightUnit,
        details |-> valid_metrics \o invalid_metrics,
        explanation |-> metrics.explanation,
        is_valid |-> is_valid]

\* a criterion without any classified sub-metric is not valid
evaluate_criterion_EmptyInvalid(th, criterion, metrics) ==
    LET details == metrics.details
        tc == th[criterion]
        Configured(e) == e.metric \in DOMAIN tc
        IsValidMetric(e) == ClassifiedValid(tc[e.metric], e.value)
        IsInvalidMetric(e) == ~IsValidMetric(e)
        configured == SelectSeq(details, Configured)
        valid_metrics == SelectSeq(configured, IsValidMetric)
        invalid_metrics == SelectSeq(configured, IsInvalidMetric)
        required_invalid ==
            \E i \in 1..Len(invalid_metrics) : tc[invalid_metrics[i].metric].required
        is_valid == IF invalid_metrics # <<>> THEN ~required_invalid
                    ELSE valid_metrics # <<>>
        weighted_score ==
            IF valid_metrics # <<>>
            THEN SumSeq([i \in 1..Len(valid_metrics) |->
                           valid_metrics[i].value * tc[valid_metrics[i].metric].weight])
            ELSE 0
    IN [score |-> weighted_score,
        details |-> valid_metrics \o invalid_metrics,
        explanation |-> metrics.explanation,
        is_valid |-> is_valid]

\* the weighted sum runs over every configured sub-metric, valid or not
evaluate_criterion_SumsAll(th, criterion, metrics) ==
    LET details == metrics.details
        tc == th[criterion]
        Configured(e) == e.metric \in DOMAIN tc
        IsValidMetric(e) == ClassifiedValid(tc[e.metric], e.value)
        IsInvalidMetric(e) == ~IsValidMetric(e)
        configured == SelectSeq(details, Configured)
        valid_metrics == SelectSeq(configured, IsValidMetric)
        invalid_metrics == SelectSeq(configured, IsInvalidMetric)
        required_invalid ==
            \E i \in 1..Len(invalid_metrics) : tc[invalid_metrics[i].metric].required
        is_valid == IF invalid_metrics # <<>> THEN ~required_invalid ELSE TRUE
        weighted_score ==
            SumSeq([i \in 1..Len(configured) |->
                      configured[i].value * tc[configured[i].metric].weight])
    IN [score |-> weighted_score,
        details |-> valid_metrics \o invalid_metrics,
        explanation |-> metrics.explanation,
        is_valid |-> is_valid]

evaluate_criterion(th, criterion, metrics) ==
    LET details == metrics.details
        tc == th[criterion]
        Configured(e) == e.metric \in DOMAIN tc
        IsValidMetric(e) == ClassifiedValid(tc[e.metric], e.value)
        IsInvalidMetric(e) == ~IsValidMetric(e)
        configured == SelectSeq(details, Configured)
        valid_metrics == SelectSeq(configured, IsValidMetric)
        invalid_metrics == SelectSeq(configured, IsInvalidMetric)
        required_invalid ==
            \E i \in 1..Len(invalid_metrics) : tc[invalid_metrics[i].metric].required
        is_valid == IF invalid_metrics # <<>> THEN ~required_invalid ELSE TRUE
        weighted_score ==
            IF valid_metrics # <<>>
            THEN SumSeq([i \in 1..Len(valid_metrics) |->
                           valid_metrics[i].value * tc[valid_metrics[i].metric].weight])
            ELSE 0
    IN [score |-> weighted_score,
        details |-> valid_metrics \o invalid_metrics,
        explanation |-> metrics.explanation,
        is_valid |-> is_valid]

---------------------------------------------------------------------------
(* Aggregation Engine: QualityWheel.evaluate_practice *)

EmptyResult ==
    [valid_scores |-> EmptyDict,
     invalid_scores |-> EmptyDict,
     missing_required |-> <<>>,
     final_score |-> None,
     reliability_score |-> None,
     recommendations |-> <<>>]

Returned(r) == [status |-> "returned", value |-> r]

Raised(e) == [status |-> "raised", error |-> e]

\* any(self.thresholds[criterion][m].required for m in metrics["details"]):
\* the generator is consumed in dict order and stops at the first True; the
\* subscript raises KeyError on a key the registry does not hold.
RECURSIVE AnyRequired(_, _, _)
AnyRequired(tc, details, i) ==
    IF i > Len(details) THEN "False"
    ELSE IF details[i].metric \notin DOMAIN tc THEN "KeyError"
    ELSE IF tc[details[i].metric].required THEN "True"
    ELSE AnyRequired(tc, details, i + 1)

\* the scores of valid_scores are summed and not divided by their number
FinalScore_Sum(result) ==
    IF result.missing_required = <<>>
    THEN IF DOMAIN result.valid_scores # {}
         THEN SumScores(result.valid_scores) * MeanUnit
         ELSE result.final_score
    ELSE result.final_score

\* the mean is computed without the missing_required guard
FinalScore_Unguarded(result) ==
    IF DOMAIN result.valid_scores # {}
    THEN (SumScores(result.valid_scores) * MeanUnit)
            \div Cardinality(DOMAIN result.valid_scores)
    ELSE result.final_score

\* the mean of the scores of valid_scores, guarded by missing_required
FinalScore(result) ==
    IF result.missing_required = <<>>
    THEN IF DOMAIN result.valid_scores # {}
         THEN (SumScores(result.valid_scores) * MeanUnit)
                 \div Cardinality(DOMAIN result.valid_scores)
         ELSE result.final_score
    ELSE result.final_score

\* a criterion the registry does not hold is recorded as valid with score 0
CriterionStep_UnknownValid(th, criterion, metrics, result) ==
    IF criterion \notin DOMAIN th
    THEN Returned([result EXCEPT !.valid_scores =
                     DictSet(@, criterion,
                             [score |-> 0, details |-> <<>>,
                              explanation |-> metrics.explanation,
                              is_valid |-> TRUE])])
    ELSE IF metrics.kind # "dict" THEN Raised("TypeError")
    ELSE
      LET cr == evaluate_criterion(th, criterion, metrics)
          any == AnyRequired(th[criterion], metrics.details, 1)
          routed ==
              IF cr.is_valid
              THEN [result EXCEPT !.valid_scores = DictSet(@, criterion, cr)]
              ELSE [result EXCEPT
                      !.invalid_scores = DictSet(@, criterion, cr),
                      !.missing_required =
                          IF any = "True" THEN Append(@, criterion) ELSE @]
          recommended ==
              IF cr.score < 6 * WeightUnit
              THEN [routed EXCEPT !.recommendations =
                                     Append(@, <<criterion, cr.explanation>>)]
              ELSE routed
      IN IF ~cr.is_valid /\ any = "KeyError" THEN Raised("KeyError")
         ELSE Returned(recommended)

\* the newest invalid criterion is put in front of missing_required
CriterionStep_PrependsMissing(th, criterion, metrics, result) ==
    IF criterion \notin DOMAIN th THEN Returned(result)
    ELSE IF metrics.kind # "dict" THEN Raised("TypeError")
    ELSE
      LET cr == evaluate_criterion(th, criterion, metrics)
          any == AnyRequired(th[criterion], metrics.details, 1)
          routed ==
              IF cr.is_valid
              THEN [result EXCEPT !.valid_scores = DictSet(@, criterion, cr)]
              ELSE [result EXCEPT
                      !.invalid_scores = DictSet(@, criterion, cr),
                      !.missing_required =
                          IF any = "True" THEN <<criterion>> \o @ ELSE @]
          recommended ==
              IF cr.score < 6 * WeightUnit
              THEN [routed EXCEPT !.recommendations =
                                     Append(@, <<criterion, cr.explanation>>)]
              ELSE routed
      IN IF ~cr.is_valid /\ any = "KeyError" THEN Raised("KeyError")
         ELSE Returned(recommended)

\* a recommendation is appended for every invalid criterion
CriterionStep_RecommendsInvalid(th, criterion, metrics, result) ==
    IF criterion \notin DOMAIN th THEN Returned(result)
    ELSE IF metrics.kind # "dict" THEN Raised("TypeError")
    ELSE
      LET cr == evaluate_criterion(th, criterion, metrics)
          any == AnyRequired(th[criterion], metrics.details, 1)
          routed ==
              IF cr.is_valid
              THEN [result EXCEPT !.valid_scores = DictSet(@, criterion, cr)]
              ELSE [result EXCEPT
                      !.invalid_scores = DictSet(@, criterion, cr),
                      !.missing_required =
                          IF any = "True" THEN Append(@, criterion) ELSE @]
          recommended ==
              IF cr.score < 6 * WeightUnit \/ ~cr.is_valid
              THEN [routed EXCEPT !.recommendations =
                                     Append(@, <<criterion, cr.explanation>>)]
              ELSE routed
      IN IF ~cr.is_valid /\ any = "KeyError" THEN Raised("KeyError")
         ELSE Returned(recommended)

\* one iteration of the loop over scores.items(); result is the dict so far
CriterionStep(th, criterion, metrics, result) ==
    IF criterion \notin DOMAIN th THEN Returned(result)
    ELSE IF metrics.kind # "dict" THEN Raised("TypeError")
    ELSE
      LET cr == evaluate_criterion(th, criterion, metrics)
          any == AnyRequired(th[criterion], metrics.details, 1)
          routed ==
              IF cr.is_valid
              THEN [result EXCEPT !.valid_scores = DictSet(@, criterion, cr)]
              ELSE [result EXCEPT
                      !.invalid_scores = DictSet(@, criterion, cr),
                      !.missing_required =
                          IF any = "True" THEN Append(@, criterion) ELSE @]
          recommended ==
              IF cr.score < 6 * WeightUnit
              THEN [routed EXCEPT !.recommendations =
                                     Append(@, <<criterion, cr.explanation>>)]
              ELSE routed
      IN IF ~cr.is_valid /\ any = "KeyError" THEN Raised("KeyError")
         ELSE Returned(recommended)

RECURSIVE CriteriaLoop(_, _, _, _)
CriteriaLoop(th, s, i, result) ==
    IF i > Len(s) THEN Returned(result)
    ELSE LET step == CriterionStep(th, s[i].criterion, s[i].result, result)
         IN IF step.status = "raised" THEN step
            ELSE CriteriaLoop(th, s, i + 1, step.value)

\* an empty scores dict is rejected before the loop
evaluate_practice_RejectsEmpty(th, s) ==
    IF s = <<>> THEN Raised("ValueError")
    ELSE LET looped == CriteriaLoop(th, s, 1, EmptyResult)
         IN IF looped.status = "raised" THEN looped
            ELSE Returned([looped.value EXCEPT !.final_score = FinalScore(looped.value)])

evaluate_practice(th, s) ==
    LET looped == CriteriaLoop(th, s, 1, EmptyResult)
    IN IF looped.status = "raised" THEN looped
       ELSE Returned([looped.value EXCEPT !.final_score = FinalScore(looped.value)])

---------------------------------------------------------------------------
(* Decision Policy: PracticeValidator._make_decision *)

\* the absent final_score is tested before missing_required
make_decision_IncompleteFirst(ev) ==
    IF ev.final_score = None THEN "incomplete"
    ELSE IF ev.missing_required # <<>> THEN "needs_improvement"
    ELSE IF ev.final_score >= 7 * FinalUnit THEN "approve"
    ELSE IF ev.final_score >= 5 * FinalUnit THEN "review"
    ELSE "reject"

\* the score rules are tried before the missing_required rule
make_decision_ScoreFirst(ev) ==
    IF ev.final_score # None /\ ev.final_score >= 7 * FinalUnit THEN "approve"
    ELSE IF ev.missing_required # <<>> THEN "needs_improvement"
    ELSE IF ev.final_score = None THEN "incomplete"
    ELSE IF ev.final_score >= 5 * FinalUnit THEN "review"
    ELSE "reject"

\* the approve boundary is exclusive
make_decision_StrictApprove(ev) ==
    IF ev.missing_required # <<>> THEN "needs_improvement"
    ELSE IF ev.final_score = None THEN "incomplete"
    ELSE IF ev.final_score > 7 * FinalUnit THEN "approve"
    ELSE IF ev.final_score >= 5 * FinalUnit THEN "review"
    ELSE "reject"

make_decision(ev) ==
    IF ev.missing_required # <<>> THEN "needs_improvement"
    ELSE IF ev.final_score = None THEN "incomplete"
    ELSE IF ev.final_score >= 7 * FinalUnit THEN "approve"
    ELSE IF ev.final_score >= 5 * FinalUnit THEN "review"
    ELSE "reject"

\* the report assembled by PracticeValidator.validate_practice
ValidationReport(s, ev) ==
    [scores |-> s,
     valid_scores |-> ev.valid_scores,
     invalid_scores |-> ev.invalid_scores,
     final_score |-> ev.final_score,
     reliability_score |-> ev.reliability_score,
     recommendations |-> ev.recommendations,
     decision |-> make_decision(ev)]

---------------------------------------------------------------------------
(* Analyzers: the analyze entry point of each configured analyzer, driven  *)
(* to completion.  What an analyzer computes from the practice text is a   *)
(* nondeterministic choice of its internal outcome.                        *)

AnalyzerOrder == <<"Q", "R", "U", "A", "I", "Rel">>

KnownCriteria == {AnalyzerOrder[i] : i \in 1..Len(AnalyzerOrder)}

\* analyzers whose analyze is a coroutine function (async def)
AsyncAnalyzers == {"Q", "U", "A", "I", "Rel"}

\* analyzers that inherit BaseAnalyzer.analyze
BaseAnalyzers == {"Q", "A", "I", "Rel"}

Values == {3, 6, 10}

Dict(score, details, explanation) ==
    [kind |-> "dict", score |-> score, details |-> details,
     explanation |-> explanation]

\* the object a call of an async def returns: its body has not run
Coroutine == [kind |-> "coroutine"]

NeutralDefault == Dict(5, <<>>, "Error during analysis")

\* BaseAnalyzer.analyze around analyze_sync
BaseAnalyze(internal, result) ==
    IF internal = "raises" THEN Returned(NeutralDefault)
    ELSE IF internal = "not_dict" THEN Returned(NeutralDefault)
    ELSE IF internal = "no_score" THEN Returned(NeutralDefault)
    ELSE Returned(result)

\* ReproducibilityAnalyzer.analyze: a plain method without a handler
ReproducibilityAnalyze(internal, result) ==
    IF internal = "raises" THEN Raised("TypeError")
    ELSE Returned(result)

\* UtilityAnalyzer.analyze: awaits the LLM, then calls methods the class
\* does not define
UtilityAnalyze(internal, result) ==
    IF internal = "raises" THEN Raised("RetryError")
    ELSE Raised("AttributeError")

Analyze(c, internal, result) ==
    IF c = "R" THEN ReproducibilityAnalyze(internal, result)
    ELSE IF c = "U" THEN UtilityAnalyze(internal, result)
    ELSE BaseAnalyze(internal, result)

\* internal outcomes of the computation behind analyze
Internals(c) ==
    IF c \in BaseAnalyzers THEN {"result", "no_score", "not_dict", "raises"}
    ELSE {"result", "raises"}

\* the dicts ReproducibilityAnalyzer.analyze builds
ReproducibilityResults ==
    {Dict(5, <<[metric |-> "steps_clarity", value |-> a],
               [metric |-> "requirements", value |-> b],
               [metric |-> "resources", value |-> c]>>, "why") :
        a \in Values, b \in Values, c \in Values}

\* the dicts QualityAnalyzer.analyze_sync builds
QualityResults ==
    {Dict(5, <<[metric |-> "fullness", value |-> a],
               [metric |-> "structure", value |-> b],
               [metric |-> "examples", value |-> c],
               [metric |-> "limitations", value |-> d]>>, "why") :
        a \in Values, b \in Values, c \in Values, d \in Values}

\* the dicts ReliabilityAnalyzer.analyze_sync builds
ReliabilityResults ==
    {Dict(5, <<[metric |-> "empirical_validation", value |-> a],
               [metric |-> "methodology", value |-> b],
               [metric |-> "adaptability", value |-> c],
               [metric |-> "external_validation", value |-> d],
               [metric |-> "validation_quality", value |-> e],
               [metric |-> "type_multiplier", value |-> 1],
               [metric |-> "is_concept", value |-> 0]>>, "") :
        a \in Values, b \in Values, c \in Values, d \in Values, e \in Values}

\* the dicts ApplicabilityAnalyzer and InnovationAnalyzer analyze_sync build
MultiplierResults ==
    {Dict(5, <<[metric |-> "base_score", value |-> a],
               [metric |-> "multiplier", value |-> 1],
               [metric |-> "is_concept", value |-> b]>>, "") :
        a \in Values, b \in {0, 1}}

\* the dicts UtilityAnalyzer._calculate_final_score builds
UtilityResults ==
    {Dict(5, <<[metric |-> "business_value", value |-> a],
               [metric |-> "team_impact", value |-> b],
               [metric |-> "process_improvement", value |-> c]>>, "") :
        a \in Values, b \in Values, c \in Values}

AnalyzerResults(c) ==
    CASE c = "Q" -> QualityResults
      [] c = "R" -> ReproducibilityResults
      [] c = "U" -> UtilityResults
      [] c = "Rel" -> ReliabilityResults
      [] OTHER -> MultiplierResults

---------------------------------------------------------------------------
(* Initial state *)

NoOutcome == [status |-> "none"]

IdleValidate == [pc |-> "idle", scores |-> <<>>]

NoAdjust == [count |-> 0]

IdleRevalidation == [pc |-> "idle"]

NotStarted ==
    [pc |-> "idle", connection |-> "none", iterations |-> 0, connected |-> FALSE,
     log |-> <<>>]

Init ==
    /\ thresholds = DefaultThresholds
    /\ scores = <<>>
    /\ pc = "input"
    /\ evaluation = NoOutcome
    /\ decision = "none"
    /\ analysis = NoOutcome
    /\ vp = IdleValidate
    /\ adjust = NoAdjust
    /\ calls = <<>>
    /\ deliveries = <<>>
    /\ revalidation = IdleRevalidation
    /\ consumer = NotStarted

---------------------------------------------------------------------------
(* The engine called on a scores dict the caller assembles *)

UnknownCriterion == "X"
UnconfiguredMetric == "x"
AnalyzerScores == {5}
Explanations == {"why"}

\* criteria of the entries built sub-metric by sub-metric: required keys
\* first (Q, Rel), optional keys first (I) and a key the registry lacks.
\* AddFullCriterion below covers all six criteria.
InputCriteria == {"Q", "I", "Rel"} \cup {UnknownCriterion}

MetricNames(c) ==
    IF c \in DOMAIN thresholds
    THEN (DOMAIN thresholds[c]) \cup {UnconfiguredMetric}
    ELSE {UnconfiguredMetric}

TotalEntries(s) == SumSeq([i \in 1..Len(s) |-> Len(s[i].result.details)])

\* the caller inserts a CriterionResult with empty details under a new key
AddCriterion(c, sc, ex) ==
    /\ pc = "input"
    /\ Len(scores) < MaxCriteria
    /\ c \notin ScoreKeys(scores)
    /\ scores' = Append(scores, [criterion |-> c, result |-> Dict(sc, <<>>, ex)])
    /\ UNCHANGED <<thresholds, pc, evaluation, decision, analysis, vp, adjust, calls, deliveries, revalidation, consumer>>

\* the caller inserts a sub-metric into the details of the newest entry
AddMetric(m, v) ==
    /\ pc = "input"
    /\ scores # <<>>
    /\ TotalEntries(scores) < MaxEntries
    /\ LET n == Len(scores)
           e == scores[n]
       IN /\ m \in MetricNames(e.criterion)
          /\ m \notin DetailKeys(e.result.details)
          /\ scores' = [scores EXCEPT ![n].result.details =
                           Append(@, [metric |-> m, value |-> v])]
    /\ UNCHANGED <<thresholds, pc, evaluation, decision, analysis, vp, adjust, calls, deliveries, revalidation, consumer>>

\* the call empties the dict it was given
CallEvaluate_DrainsInput ==
    /\ pc = "input"
    /\ evaluation' = evaluate_practice(thresholds, scores)
    /\ pc' = "evaluated"
    /\ scores' = <<>>
    /\ UNCHANGED <<thresholds, decision, analysis, vp, adjust, calls, deliveries, revalidation, consumer>>

\* quality_wheel.evaluate_practice(scores)
CallEvaluate ==
    /\ pc = "input"
    /\ evaluation' = evaluate_practice(thresholds, scores)
    /\ pc' = "evaluated"
    /\ UNCHANGED <<thresholds, scores, decision, analysis, vp, adjust, calls, deliveries, revalidation, consumer>>

\* _make_decision(evaluation) on the Evaluation the engine returned
CallDecide ==
    /\ pc = "evaluated"
    /\ evaluation.status = "returned"
    /\ decision' = make_decision(evaluation.value)
    /\ pc' = "decided"
    /\ UNCHANGED <<thresholds, scores, evaluation, analysis, vp, adjust, calls, deliveries, revalidation, consumer>>

\* quality_wheel.evaluate_practice(scores) once more on the same dict, with
\* no adjust_threshold call and no change of the dict since the last call
ReEvaluate ==
    /\ pc \in {"evaluated", "decided"}
    /\ evaluation' = evaluate_practice(thresholds, scores)
    /\ pc' = "evaluated"
    /\ UNCHANGED <<thresholds, scores, decision, analysis, vp, adjust, calls, deliveries, revalidation, consumer>>

\* the sub-metric names of each criterion in the order the registry lists them
MetricOrder ==
    [ Q   |-> <<"fullness", "structure", "examples", "limitations">>,
      R   |-> <<"steps_clarity", "requirements", "resources">>,
      U   |-> <<"problem_clarity", "benefits", "efficiency">>,
      A   |-> <<"universality", "scalability", "constraints">>,
      I   |-> <<"novelty", "tech_complexity", "potential">>,
      Rel |-> <<"empirical_validation", "methodology", "adaptability",
                "external_validation">> ]

FullDetails(c, v) ==
    [i \in 1..Len(MetricOrder[c]) |-> [metric |-> MetricOrder[c][i], value |-> v]]

IsFullPrefix(s) ==
    \A i \in 1..Len(s) :
        /\ s[i].criterion = AnalyzerOrder[i]
        /\ Len(s[i].result.details) = Len(MetricOrder[AnalyzerOrder[i]])

\* the caller inserts, in the validator's key order, a CriterionResult that
\* reports every configured sub-metric of its criterion
AddFullCriterion(v, sc, ex) ==
    /\ pc = "input"
    /\ Len(scores) < Len(AnalyzerOrder)
    /\ IsFullPrefix(scores)
    /\ LET c == AnalyzerOrder[Len(scores) + 1]
       IN scores' = Append(scores,
                       [criterion |-> c, result |-> Dict(sc, FullDetails(c, v), ex)])
    /\ UNCHANGED <<thresholds, pc, evaluation, decision, analysis, vp, adjust, calls, deliveries, revalidation, consumer>>

Next ==
    \/ \E c \in InputCriteria, sc \in AnalyzerScores, ex \in Explanations :
          AddCriterion(c, sc, ex)
    \/ \E m \in UNION {MetricNames(c) : c \in InputCriteria}, v \in Values :
          AddMetric(m, v)
    \/ \E v \in Values, sc \in AnalyzerScores, ex \in Explanations :
          AddFullCriterion(v, sc, ex)
    \/ CallEvaluate
    \/ CallDecide
    \/ ReEvaluate

Spec == Init /\ [][Next]_vars

---------------------------------------------------------------------------
(* The decision policy called directly on an Evaluation dict, including    *)
(* dicts no single run of the engine produces (a final_score left beside a *)
(* non-empty missing_required)                                             *)

RECURSIVE SeqsUpTo(_, _)
SeqsUpTo(S, n) ==
    IF n = 0 THEN {<<>>}
    ELSE LET shorter == SeqsUpTo(S, n - 1)
         IN shorter \cup {Append(q, x) : q \in shorter, x \in S}

DecideScores ==
    {None} \cup {k * (FinalUnit \div 4) : k \in 0..40}
           \cup {5 * FinalUnit - 1, 5 * FinalUnit + 1,
                 7 * FinalUnit - 1, 7 * FinalUnit + 1}

DecideInputs ==
    {[EmptyResult EXCEPT !.missing_required = m, !.final_score = f] :
        m \in SeqsUpTo(KnownCriteria, MaxDecideMissing), f \in DecideScores}

DecideOn(ev) ==
    /\ pc = "input"
    /\ scores = <<>>
    /\ evaluation' = Returned(ev)
    /\ decision' = make_decision(ev)
    /\ pc' = "decided"
    /\ UNCHANGED <<thresholds, scores, analysis, vp, adjust, calls, deliveries, revalidation, consumer>>

NextDecide == \E ev \in DecideInputs : DecideOn(ev)

SpecDecide == Init /\ [][NextDecide]_vars

---------------------------------------------------------------------------
(* One analyzer's analyze(practice) driven to completion *)

NoResult == [kind |-> "none"]

RunAnalyze(c, internal, result) ==
    /\ pc = "input"
    /\ scores = <<>>
    /\ internal \in Internals(c)
    /\ IF internal = "result" THEN result \in AnalyzerResults(c)
                              ELSE result = NoResult
    /\ analysis' = [status |-> "done", criterion |-> c, internal |-> internal,
                    result |-> result, outcome |-> Analyze(c, internal, result)]
    /\ pc' = "analyzed"
    /\ UNCHANGED <<thresholds, scores, evaluation, decision, vp, adjust, calls, deliveries, revalidation, consumer>>

AllResults == {NoResult} \cup UNION {AnalyzerResults(c) : c \in KnownCriteria}

NextAnalyze ==
    \E c \in KnownCriteria,
       internal \in {"result", "no_score", "not_dict", "raises"},
       result \in AllResults :
        RunAnalyze(c, internal, result)

SpecAnalyze == Init /\ [][NextAnalyze]_vars

---------------------------------------------------------------------------
(* PracticeValidator.validate_practice, one step per analyzer call and one *)
(* for the aggregation, decision and report                                *)

ValidateStart ==
    /\ vp.pc = "idle"
    /\ pc = "input"
    /\ scores = <<>>
    /\ vp' = [pc |-> "analyzing", scores |-> <<>>, failed |-> {},
              result |-> NoOutcome]
    /\ UNCHANGED <<thresholds, scores, pc, evaluation, decision, analysis, adjust, calls, deliveries, revalidation, consumer>>

\* key: analyzer.analyze(practice_data) for the next key of self.analyzers.
\* Calling a coroutine function only creates the coroutine object; a plain
\* method runs now, and an exception it raises leaves validate_practice.
ValidateAnalyze(internal, result) ==
    /\ vp.pc = "analyzing"
    /\ Len(vp.scores) < Len(AnalyzerOrder)
    /\ LET c == AnalyzerOrder[Len(vp.scores) + 1]
       IN IF c \in AsyncAnalyzers
          THEN /\ internal = "result"
               /\ result = NoResult
               /\ vp' = [vp EXCEPT !.scores =
                            Append(@, [criterion |-> c, result |-> Coroutine])]
          ELSE /\ internal \in Internals(c)
               /\ IF internal = "result" THEN result \in AnalyzerResults(c)
                                         ELSE result = NoResult
               /\ LET o == Analyze(c, internal, result)
                      failed == IF internal = "result" THEN vp.failed
                                ELSE vp.failed \cup {c}
                  IN IF o.status = "raised"
                     THEN vp' = [vp EXCEPT !.pc = "raised", !.failed = failed,
                                           !.result = o]
                     ELSE vp' = [vp EXCEPT !.failed = failed, !.scores =
                                    Append(@, [criterion |-> c, result |-> o.value])]
    /\ UNCHANGED <<thresholds, scores, pc, evaluation, decision, analysis, adjust, calls, deliveries, revalidation, consumer>>

\* evaluate_practice(scores), _make_decision(evaluation) and the report
ValidateEvaluate ==
    /\ vp.pc = "analyzing"
    /\ Len(vp.scores) = Len(AnalyzerOrder)
    /\ LET o == evaluate_practice(thresholds, vp.scores)
       IN /\ evaluation' = o
          /\ IF o.status = "raised"
             THEN /\ vp' = [vp EXCEPT !.pc = "raised", !.result = o]
                  /\ UNCHANGED decision
             ELSE /\ vp' = [vp EXCEPT !.pc = "returned", !.result =
                               Returned(ValidationReport(vp.scores, o.value))]
                  /\ decision' = make_decision(o.value)
    /\ UNCHANGED <<thresholds, scores, pc, analysis, adjust, calls, deliveries, revalidation, consumer>>

NextValidate ==
    \/ ValidateStart
    \/ \E internal \in {"result", "raises"}, result \in AllResults :
          ValidateAnalyze(internal, result)
    \/ ValidateEvaluate

SpecValidate == Init /\ [][NextValidate]_vars

---------------------------------------------------------------------------
(* The registry under a sequence of adjust_threshold calls *)

AdjustCriteria == {"Q", "Rel", UnknownCriterion}

AdjustMetrics ==
    {"fullness", "examples", "empirical_validation", "adaptability",
     UnconfiguredMetric}

AdjustMinValues == {NoArg, Some(4)}

AdjustWeights == {NoArg, Some(WeightUnit)}

AdjustRequired == {NoArg, Some(TRUE), Some(FALSE)}

\* quality_wheel.adjust_threshold(criterion, metric, min_value, weight, required)
AdjustThreshold(c, m, mv, w, r) ==
    /\ thresholds' = adjust_threshold(thresholds, c, m, mv, w, r)
    /\ adjust' = [count |-> adjust.count + 1, criterion |-> c, metric |-> m,
                  min_value |-> mv, weight |-> w, required |-> r]
    /\ UNCHANGED <<scores, pc, evaluation, decision, analysis, vp, calls, deliveries, revalidation, consumer>>

NextRegistry ==
    \E c \in AdjustCriteria, m \in AdjustMetrics, mv \in AdjustMinValues,
       w \in AdjustWeights, r \in AdjustRequired :
        /\ adjust.count < MaxAdjust
        /\ AdjustThreshold(c, m, mv, w, r)

SpecRegistry == Init /\ [][NextRegistry]_vars

---------------------------------------------------------------------------
(* A caller that configures one sub-metric per criterion with               *)
(* adjust_threshold, then reports that single sub-metric for each of the    *)
(* six criteria, evaluates and decides.                                     *)

ExampleValues == {5, 8}

\* the sub-metric of criterion c the example reports and configures
ExampleMetric(c) == MetricOrder[c][1]

ExampleThreshold == CriterionThreshold(6, WeightUnit, TRUE)

\* adjust_threshold(c, m1, min_value=6.0, weight=1.0, required=True)
ConfigureExample(c) ==
    /\ pc = "input"
    /\ scores = <<>>
    /\ thresholds[c][ExampleMetric(c)] # ExampleThreshold
    /\ AdjustThreshold(c, ExampleMetric(c), Some(6), Some(WeightUnit), Some(TRUE))

\* the caller inserts, in the validator's key order, a CriterionResult whose
\* details hold the one sub-metric of the example
AddSingleMetric(v, sc, ex) ==
    /\ pc = "input"
    /\ Len(scores) < Len(AnalyzerOrder)
    /\ LET c == AnalyzerOrder[Len(scores) + 1]
           details == <<[metric |-> ExampleMetric(c), value |-> v]>>
       IN scores' = Append(scores, [criterion |-> c, result |-> Dict(sc, details, ex)])
    /\ UNCHANGED <<thresholds, pc, evaluation, decision, analysis, vp, adjust, calls, deliveries, revalidation, consumer>>

NextExample ==
    \/ \E c \in KnownCriteria : ConfigureExample(c)
    \/ \E v \in ExampleValues, sc \in AnalyzerScores, ex \in Explanations :
          AddSingleMetric(v, sc, ex)
    \/ CallEvaluate
    \/ CallDecide

SpecExample == Init /\ [][NextExample]_vars

---------------------------------------------------------------------------
(* Several evaluate_practice calls in progress on one QualityWheel, their   *)
(* loop iterations interleaved; no adjust_threshold call runs.              *)

\* the new call starts from the dict the latest call is building
StartResult_Shared(cs) ==
    IF cs = <<>> THEN EmptyResult ELSE cs[Len(cs)].result

\* result = {...}: the dict literal a call binds to its local name
StartResult(cs) == EmptyResult

ConcurrentValues == {3, 10}

\* scores dicts of the calls: as a caller reports them, with an analyzer's
\* failure fallback under "Q", and as validate_practice assembles them (a
\* coroutine object under "Q")
ConcurrentInputs ==
    {<<>>}
    \cup {<<[criterion |-> "Q", result |-> Dict(5, FullDetails("Q", v), "why")],
           [criterion |-> "Rel", result |-> Dict(5, FullDetails("Rel", w), "why")]>> :
             v \in ConcurrentValues, w \in ConcurrentValues}
    \cup {<<[criterion |-> "Q", result |-> NeutralDefault],
           [criterion |-> "Rel", result |-> Dict(5, FullDetails("Rel", w), "why")]>> :
             w \in ConcurrentValues}
    \cup {<<[criterion |-> "Q", result |-> Coroutine],
           [criterion |-> "R", result |-> Dict(5, FullDetails("R", v), "why")]>> :
             v \in ConcurrentValues}

\* a thread enters evaluate_practice(s)
StartCall(s) ==
    /\ Len(calls) < MaxCalls
    /\ calls' = Append(calls, [input |-> s, i |-> 1, result |-> StartResult(calls),
                               outcome |-> NoOutcome])
    /\ UNCHANGED <<thresholds, scores, pc, evaluation, decision, analysis, vp, adjust, deliveries, revalidation, consumer>>

\* call k runs one iteration of its loop over scores.items()
StepCall(k) ==
    /\ calls[k].outcome = NoOutcome
    /\ calls[k].i <= Len(calls[k].input)
    /\ LET e == calls[k].input[calls[k].i]
           step == CriterionStep(thresholds, e.criterion, e.result, calls[k].result)
       IN calls' = IF step.status = "raised"
                   THEN [calls EXCEPT ![k].outcome = step]
                   ELSE [calls EXCEPT ![k].result = step.value, ![k].i = @ + 1]
    /\ UNCHANGED <<thresholds, scores, pc, evaluation, decision, analysis, vp, adjust, deliveries, revalidation, consumer>>

\* call k leaves the loop, computes final_score and returns its dict
FinishCall(k) ==
    /\ calls[k].outcome = NoOutcome
    /\ calls[k].i > Len(calls[k].input)
    /\ LET result == [calls[k].result EXCEPT !.final_score = FinalScore(calls[k].result)]
       IN calls' = [calls EXCEPT ![k].result = result, ![k].outcome = Returned(result)]
    /\ UNCHANGED <<thresholds, scores, pc, evaluation, decision, analysis, vp, adjust, deliveries, revalidation, consumer>>

NextConcurrent ==
    \/ \E s \in ConcurrentInputs : StartCall(s)
    \/ \E k \in 1..Len(calls) : StepCall(k)
    \/ \E k \in 1..Len(calls) : FinishCall(k)

SpecConcurrent == Init /\ [][NextConcurrent]_vars

---------------------------------------------------------------------------
(* The engine called on complete reports: every sub-metric of Q and of I    *)
(* takes its own value, the analyzer's own score varies, and the two        *)
(* criteria come in either order.                                           *)

ReportValues == {0, 6, 10}
ReportScores == {2, 9}

\* the details dict of criterion c with the values vals, in registry order
DetailsOf(c, vals) ==
    [i \in 1..Len(MetricOrder[c]) |-> [metric |-> MetricOrder[c][i], value |-> vals[i]]]

\* the CriterionResults an analyzer of criterion c can report
ReportedEntries(c, values) ==
    {[criterion |-> c, result |-> Dict(sc, DetailsOf(c, vals), "why")] :
        sc \in ReportScores, vals \in [1..Len(MetricOrder[c]) -> values]}

ReportedInputs ==
    LET q == ReportedEntries("Q", {0, 10})
        i == ReportedEntries("I", ReportValues)
    IN {<<e>> : e \in q \cup i}
       \cup {<<a, b>> : a \in q, b \in i}
       \cup {<<b, a>> : a \in q, b \in i}
       \cup {<<[criterion |-> UnknownCriterion, result |-> Dict(sc, <<>>, "why")]>> :
               sc \in ReportScores}

\* the caller holds the scores dict s
SupplyScores(s) ==
    /\ pc = "input"
    /\ scores = <<>>
    /\ scores' = s
    /\ UNCHANGED <<thresholds, pc, evaluation, decision, analysis, vp, adjust, calls, deliveries, revalidation, consumer>>

NextReport ==
    \/ \E s \in ReportedInputs : SupplyScores(s)
    \/ CallEvaluate
    \/ CallDecide

SpecReport == Init /\ [][NextReport]_vars

---------------------------------------------------------------------------
(* A caller that changes weights of criterion I with adjust_threshold and   *)
(* then has a report of I evaluated.                                        *)

WeightedCriterion == "I"
WeightArgs == {Some(0), Some(2 * WeightUnit)}
WeightedValues == {0, 10, 12}

\* adjust_threshold("I", m, weight=w)
AdjustWeight(m, w) ==
    /\ pc = "input"
    /\ scores = <<>>
    /\ adjust.count < MaxAdjust
    /\ AdjustThreshold(WeightedCriterion, m, NoArg, w, NoArg)

NextWeights ==
    \/ \E m \in DOMAIN DefaultThresholds[WeightedCriterion], w \in WeightArgs :
          AdjustWeight(m, w)
    \/ \E e \in ReportedEntries(WeightedCriterion, WeightedValues) : SupplyScores(<<e>>)
    \/ CallEvaluate
    \/ CallDecide

SpecWeights == Init /\ [][NextWeights]_vars

---------------------------------------------------------------------------
(* One QualityWheel used for a while: adjust_threshold and evaluate_practice *)
(* calls in any order.                                                      *)

SessionCriteria == {"Q", UnknownCriterion}
SessionMetrics == {"fullness", UnconfiguredMetric}
SessionMinValues == {NoArg, Some(8)}
SessionRequired == {NoArg, Some(FALSE)}
SessionValues == {6, 10}

SessionInputs ==
    {<<[criterion |-> "Q", result |-> Dict(5, FullDetails("Q", v), "why")]>> :
        v \in SessionValues}
    \cup {<<[criterion |-> UnknownCriterion, result |-> Dict(5, <<>>, "why")]>>}

\* adjust_threshold(c, m, min_value=mv, required=r)
SessionAdjust(c, m, mv, r) ==
    /\ adjust.count < MaxAdjust
    /\ AdjustThreshold(c, m, mv, NoArg, r)

\* evaluate_practice(s) on the registry as it is now
SessionEvaluate(s) ==
    /\ scores' = s
    /\ evaluation' = evaluate_practice(thresholds, s)
    /\ pc' = "evaluated"
    /\ UNCHANGED <<thresholds, decision, analysis, vp, adjust, calls, deliveries, revalidation, consumer>>

NextSession ==
    \/ \E c \in SessionCriteria, m \in SessionMetrics,
          mv \in SessionMinValues, r \in SessionRequired : SessionAdjust(c, m, mv, r)
    \/ \E s \in SessionInputs : SessionEvaluate(s)

SpecSession == Init /\ [][NextSession]_vars

---------------------------------------------------------------------------
(* One evaluate_practice call run read by read while another thread calls   *)
(* adjust_threshold: the registry is read again at each classification, at  *)
(* the validity test, at the weighted sum and at the any() of the routing,  *)
(* and nothing locks it. calls holds the frame of the one call.             *)

RaceValues == {3, 10}

RaceQuality(v) ==
    [criterion |-> "Q",
     result |-> Dict(5, <<[metric |-> "fullness", value |-> v],
                          [metric |-> "examples", value |-> 10]>>, "why")]

RaceInnovation ==
    [criterion |-> "I", result |-> Dict(5, FullDetails("I", 10), "why")]

RaceUnknown ==
    [criterion |-> UnknownCriterion, result |-> Dict(5, <<>>, "why")]

RaceInputs ==
    UNION {{<<RaceQuality(v)>>, <<RaceQuality(v), RaceInnovation>>,
            <<RaceInnovation, RaceQuality(v)>>, <<RaceUnknown, RaceQuality(v)>>} :
              v \in RaceValues}

\* the single-field writes of adjust_threshold("Q", "fullness", ...)
RaceWrites ==
    {<<Some(0), NoArg, NoArg>>, <<NoArg, Some(WeightUnit), NoArg>>,
     <<NoArg, NoArg, Some(FALSE)>>, <<NoArg, NoArg, Some(TRUE)>>}

\* the locals of evaluate_practice and _evaluate_criterion at entry; seen
\* collects the registries that existed while the call ran
RaceFrame(th) ==
    [i |-> 1, j |-> 1, valid_metrics |-> <<>>, invalid_metrics |-> <<>>,
     is_valid |-> TRUE, score |-> 0, result |-> EmptyResult, seen |-> {th}]

InRace == pc \in {"criterion", "classify", "weigh", "route"}

\* evaluate_practice(scores) is entered
RaceEnter ==
    /\ pc = "input"
    /\ scores # <<>>
    /\ calls' = <<RaceFrame(thresholds)>>
    /\ pc' = "criterion"
    /\ UNCHANGED <<thresholds, scores, evaluation, decision, analysis, vp, adjust, deliveries, revalidation, consumer>>

\* another thread runs adjust_threshold("Q", "fullness", ...) with one field
RaceAdjust(w) ==
    /\ InRace
    /\ adjust.count < MaxAdjust
    /\ thresholds' = adjust_threshold(thresholds, "Q", "fullness", w[1], w[2], w[3])
    /\ adjust' = [count |-> adjust.count + 1, criterion |-> "Q", metric |-> "fullness",
                  min_value |-> w[1], weight |-> w[2], required |-> w[3]]
    /\ calls' = <<[calls[1] EXCEPT !.seen = @ \cup {thresholds'}]>>
    /\ UNCHANGED <<scores, pc, evaluation, decision, analysis, vp, deliveries, revalidation, consumer>>

\* if criterion not in self.thresholds: continue
RaceSkip ==
    /\ pc = "criterion"
    /\ calls[1].i <= Len(scores)
    /\ scores[calls[1].i].criterion \notin DOMAIN thresholds
    /\ calls' = <<[calls[1] EXCEPT !.i = @ + 1]>>
    /\ UNCHANGED <<thresholds, scores, pc, evaluation, decision, analysis, vp, adjust, deliveries, revalidation, consumer>>

\* _evaluate_criterion(criterion, metrics) is entered
RaceBegin ==
    /\ pc = "criterion"
    /\ calls[1].i <= Len(scores)
    /\ scores[calls[1].i].criterion \in DOMAIN thresholds
    /\ calls' = <<[calls[1] EXCEPT !.j = 1, !.valid_metrics = <<>>,
                                   !.invalid_metrics = <<>>]>>
    /\ pc' = "classify"
    /\ UNCHANGED <<thresholds, scores, evaluation, decision, analysis, vp, adjust, deliveries, revalidation, consumer>>

\* one iteration of for metric, score in details.items()
RaceClassify ==
    /\ pc = "classify"
    /\ LET f == calls[1]
           c == scores[f.i].criterion
           details == scores[f.i].result.details
       IN /\ f.j <= Len(details)
          /\ LET e == details[f.j]
             IN calls' =
                  IF e.metric \notin DOMAIN thresholds[c]
                  THEN <<[f EXCEPT !.j = @ + 1]>>
                  ELSE IF ClassifiedValid(thresholds[c][e.metric], e.value)
                  THEN <<[f EXCEPT !.j = @ + 1, !.valid_metrics = Append(@, e)]>>
                  ELSE <<[f EXCEPT !.j = @ + 1, !.invalid_metrics = Append(@, e)]>>
    /\ UNCHANGED <<thresholds, scores, pc, evaluation, decision, analysis, vp, adjust, deliveries, revalidation, consumer>>

\* is_valid: the required flags of invalid_metrics are read now
RaceValidity ==
    /\ pc = "classify"
    /\ LET f == calls[1]
           tc == thresholds[scores[f.i].criterion]
       IN /\ f.j > Len(scores[f.i].result.details)
          /\ calls' = <<[f EXCEPT !.is_valid =
                           ~\E k \in 1..Len(f.invalid_metrics) :
                                tc[f.invalid_metrics[k].metric].required]>>
    /\ pc' = "weigh"
    /\ UNCHANGED <<thresholds, scores, evaluation, decision, analysis, vp, adjust, deliveries, revalidation, consumer>>

\* the score a frame stores is the plain sum of the valid values
WeighedSum_Unweighted(tc, valid_metrics) ==
    SumSeq([k \in 1..Len(valid_metrics) |-> valid_metrics[k].value * WeightUnit])

\* weighted_score: the weights of valid_metrics are read now
WeighedSum(tc, valid_metrics) ==
    SumSeq([k \in 1..Len(valid_metrics) |->
              valid_metrics[k].value * tc[valid_metrics[k].metric].weight])

RaceWeigh ==
    /\ pc = "weigh"
    /\ LET f == calls[1]
       IN calls' = <<[f EXCEPT !.score =
                         WeighedSum(thresholds[scores[f.i].criterion], f.valid_metrics)]>>
    /\ pc' = "route"
    /\ UNCHANGED <<thresholds, scores, evaluation, decision, analysis, vp, adjust, deliveries, revalidation, consumer>>

\* lines 88-107 of evaluate_practice: the any() reads the required flags now
RaceRoute ==
    /\ pc = "route"
    /\ LET f == calls[1]
           c == scores[f.i].criterion
           metrics == scores[f.i].result
           cr == [score |-> f.score,
                  details |-> f.valid_metrics \o f.invalid_metrics,
                  explanation |-> metrics.explanation,
                  is_valid |-> f.is_valid]
           any == AnyRequired(thresholds[c], metrics.details, 1)
           routed ==
               IF cr.is_valid
               THEN [f.result EXCEPT !.valid_scores = DictSet(@, c, cr)]
               ELSE [f.result EXCEPT
                       !.invalid_scores = DictSet(@, c, cr),
                       !.missing_required =
                           IF any = "True" THEN Append(@, c) ELSE @]
           recommended ==
               IF cr.score < 6 * WeightUnit
               THEN [routed EXCEPT !.recommendations =
                                      Append(@, <<c, cr.explanation>>)]
               ELSE routed
       IN IF ~cr.is_valid /\ any = "KeyError"
          THEN /\ evaluation' = Raised("KeyError")
               /\ pc' = "evaluated"
               /\ UNCHANGED calls
          ELSE /\ calls' = <<[f EXCEPT !.result = recommended, !.i = @ + 1]>>
               /\ pc' = "criterion"
               /\ UNCHANGED evaluation
    /\ UNCHANGED <<thresholds, scores, decision, analysis, vp, adjust, deliveries, revalidation, consumer>>

\* final_score is computed and result is returned
RaceReturn ==
    /\ pc = "criterion"
    /\ calls[1].i > Len(scores)
    /\ evaluation' = Returned([calls[1].result EXCEPT
                                 !.final_score = FinalScore(calls[1].result)])
    /\ pc' = "evaluated"
    /\ UNCHANGED <<thresholds, scores, decision, analysis, vp, adjust, calls, deliveries, revalidation, consumer>>

NextRace ==
    \/ \E s \in RaceInputs : SupplyScores(s)
    \/ RaceEnter
    \/ \E w \in RaceWrites : RaceAdjust(w)
    \/ RaceSkip
    \/ RaceBegin
    \/ RaceClassify
    \/ RaceValidity
    \/ RaceWeigh
    \/ RaceRoute
    \/ RaceReturn

SpecRace == Init /\ [][NextRace]_vars

---------------------------------------------------------------------------
(* MessageConsumer: _on_message and process_message on one delivery.        *)
(* A channel operation is written as the list of the acks and rejects that  *)
(* succeeded; on a closed channel basic_ack and basic_reject raise.         *)

Value(x) == [kind |-> "value", result |-> x]
Awaitable(x) == [kind |-> "awaitable", result |-> x]
CallRaises(e) == [kind |-> "raises", result |-> e]

\* loop.run_until_complete(x): x is an expression evaluated first; a value
\* that is not awaitable makes run_until_complete raise TypeError
run_until_complete(x) ==
    IF x.kind = "awaitable" THEN Returned(x.result)
    ELSE IF x.kind = "raises" THEN Raised(x.result)
    ELSE Raised("TypeError")

\* the exception is logged and the delivery is left unsettled
ExceptionHandler_Swallows(open) == <<>>

\* except Exception: if not ch.is_closed: ch.basic_reject(...)
ExceptionHandler(open) == IF open THEN <<"reject">> ELSE <<>>

\* ch.basic_ack / ch.basic_reject inside the try block
ChannelOp(op, open) == IF open THEN <<op>> ELSE ExceptionHandler(open)

process_message(body, fetch, analysed, tx, open) ==
    IF body = "not_json" THEN ExceptionHandler(open)
    ELSE IF body = "no_practice_id" THEN ChannelOp("reject", open)
    ELSE IF fetch = "raises" THEN ExceptionHandler(open)
    ELSE IF fetch = "empty" THEN ChannelOp("reject", open)
    ELSE LET analysis_result == run_until_complete(analysed)
         IN IF analysis_result.status = "raised" THEN ExceptionHandler(open)
            ELSE IF analysis_result.value # "sota_score" THEN ChannelOp("reject", open)
            ELSE LET tx_result == run_until_complete(tx)
                 IN IF tx_result.status = "raised" THEN ExceptionHandler(open)
                    ELSE IF tx_result.value = "status_1" THEN ChannelOp("ack", open)
                    ELSE ChannelOp("reject", open)

\* _on_message: reconnects when the connection is closed, then processes
on_message(connection, reconnect, body, fetch, analysed, tx, open) ==
    IF connection = "closed" /\ reconnect = "raises"
    THEN IF open THEN <<"reject">> ELSE <<>>
    ELSE process_message(body, fetch, analysed, tx, open)

Bodies == {"not_json", "no_practice_id", "practice_id"}

\* get_practice_details: RequestException after the retries, a falsy JSON
\* body, or the practice
FetchOutcomes == {"raises", "empty", "data"}

\* analyze_practice(data) is a plain function: it raises ValueError or
\* returns the scores dict, which always carries sota_score
AnalyzePractice == {CallRaises("ValueError"), Value("sota_score")}

\* send_validation_to_contract has no parameters scores, sota_score and
\* reliability_score: the call raises TypeError
SendValidation == {CallRaises("TypeError")}

\* connection state, outcome of connect_to_rabbitmq, channel open
Links ==
    {<<"open", "ok", TRUE>>, <<"open", "ok", FALSE>>,
     <<"closed", "ok", FALSE>>, <<"closed", "raises", FALSE>>}

\* pika calls _on_message with one delivery
OnMessage(link, body, fetch, analysed, tx) ==
    /\ Len(deliveries) < MaxDeliveries
    /\ deliveries' = Append(deliveries,
          [body |-> body, fetch |-> fetch, analysis |-> analysed, tx |-> tx,
           connection |-> link[1], reconnect |-> link[2], open |-> link[3],
           settled |-> on_message(link[1], link[2], body, fetch, analysed, tx, link[3])])
    /\ UNCHANGED <<thresholds, scores, pc, evaluation, decision, analysis, vp, adjust,
                   calls, revalidation, consumer>>

NextConsume ==
    \E link \in Links, body \in Bodies, fetch \in FetchOutcomes,
       a \in AnalyzePractice, tx \in SendValidation :
          OnMessage(link, body, fetch, a, tx)

SpecConsume == Init /\ [][NextConsume]_vars

---------------------------------------------------------------------------
(* PracticeRevalidator.revalidate_all, one loop iteration per step.         *)

PracticeIds == {"p1", "p2"}

\* get_all_practices: raise_for_status, an unreachable host, an unexpected
\* response format, or the list of ids
GetAllPractices ==
    {Raised("ClientResponseError"), Raised("ClientConnectorError"), Raised("ValueError")}
        \cup {Returned(ids) : ids \in SeqsUpTo(PracticeIds, MaxPractices)}

\* get_practice and update_validation
HttpOutcomes == {Returned("ok"), Raised("ClientResponseError"), Raised("ClientConnectorError")}

\* self.validate_practice: PracticeValidator.validate_practice raises on
\* every practice (evaluate_practice gets coroutine objects as results)
ValidatePractice == {Raised("TypeError")}

NewResults ==
    [total |-> 0, processed |-> 0, success |-> 0, failed |-> 0,
     failures |-> <<>>, validations |-> <<>>]

\* the failed practice is recorded but not counted as processed
Iterate_SkipsFailed(results, practice_id, fetched, validated, updated) ==
    IF fetched.status = "raised" \/ validated.status = "raised" \/ updated.status = "raised"
    THEN [results EXCEPT !.failed = @ + 1,
                         !.failures = Append(@, [id |-> practice_id, error |-> "error"])]
    ELSE [results EXCEPT !.success = @ + 1, !.processed = @ + 1,
                         !.validations = Append(@, [id |-> practice_id,
                                                    validation |-> validated.value])]

\* the body of the for loop: inner try, except Exception, processed += 1
Iterate(results, practice_id, fetched, validated, updated) ==
    LET failure ==
            IF fetched.status = "raised" THEN fetched
            ELSE IF validated.status = "raised" THEN validated
            ELSE IF updated.status = "raised" THEN updated
            ELSE NoOutcome
        tried ==
            IF failure = NoOutcome
            THEN [results EXCEPT !.success = @ + 1,
                                 !.validations = Append(@, [id |-> practice_id,
                                                            validation |-> validated.value])]
            ELSE [results EXCEPT !.failed = @ + 1,
                                 !.failures = Append(@, [id |-> practice_id,
                                                         error |-> failure.error])]
    IN [tried EXCEPT !.processed = @ + 1]

\* revalidate_all up to the first iteration
RevalidateAll(listed) ==
    /\ revalidation.pc = "idle"
    /\ revalidation' =
          IF listed.status = "raised"
          THEN [pc |-> "returned", listed |-> FALSE, ids |-> <<>>, at |-> 0,
                results |-> [NewResults EXCEPT
                                !.failures = <<[id |-> "", error |-> listed.error]>>]]
          ELSE [pc |-> "loop", listed |-> TRUE, ids |-> listed.value, at |-> 0,
                results |-> [NewResults EXCEPT !.total = Len(listed.value)]]
    /\ UNCHANGED <<thresholds, scores, pc, evaluation, decision, analysis, vp, adjust,
                   calls, deliveries, consumer>>

\* one iteration of the for loop
RevalidateOne(fetched, validated, updated) ==
    /\ revalidation.pc = "loop"
    /\ revalidation.at < Len(revalidation.ids)
    /\ revalidation' =
          [revalidation EXCEPT
              !.at = @ + 1,
              !.results = Iterate(@, revalidation.ids[revalidation.at + 1],
                                  fetched, validated, updated)]
    /\ UNCHANGED <<thresholds, scores, pc, evaluation, decision, analysis, vp, adjust,
                   calls, deliveries, consumer>>

\* the loop is exhausted: return results
RevalidateReturn ==
    /\ revalidation.pc = "loop"
    /\ revalidation.at = Len(revalidation.ids)
    /\ revalidation' = [revalidation EXCEPT !.pc = "returned"]
    /\ UNCHANGED <<thresholds, scores, pc, evaluation, decision, analysis, vp, adjust,
                   calls, deliveries, consumer>>

NextRevalidate ==
    \/ \E listed \in GetAllPractices : RevalidateAll(listed)
    \/ \E fetched \in HttpOutcomes, validated \in ValidatePractice, updated \in HttpOutcomes :
          RevalidateOne(fetched, validated, updated)
    \/ RevalidateReturn

SpecRevalidate == Init /\ [][NextRevalidate]_vars

---------------------------------------------------------------------------
(* MessageConsumer.start: the while loop, its try block and its handlers.   *)
(* An event is what ends a blocking call: the exception raised ("none" for  *)
(* a normal return) and the state it leaves the connection in.              *)

Event(exc, connection) == [exc |-> exc, connection |-> connection]

\* connect_to_rabbitmq on an absent or closed connection: success, the
\* connection error left after the retries, an error after the connection
\* was made, any other exception, or an interrupt
ConnectEvents ==
    {Event("none", "open"), Event("AMQPConnectionError", "same"),
     Event("AMQPConnectionError", "closed"), Event("AMQPChannelError", "open"),
     Event("Exception", "same"), Event("KeyboardInterrupt", "same"),
     Event("KeyboardInterrupt", "open")}

\* basic_qos, basic_consume and start_consuming on an open connection
ConsumeEvents ==
    {Event("none", "open"), Event("AMQPConnectionError", "closed"),
     Event("AMQPConnectionError", "open"), Event("AMQPChannelError", "open"),
     Event("Exception", "open"), Event("Exception", "closed"),
     Event("KeyboardInterrupt", "open"), Event("KeyboardInterrupt", "closed"),
     Event("SystemExit", "open")}

\* if self.connection and not self.connection.is_closed: self.connection.close()
CloseIfOpen(connection) == IF connection = "open" THEN "closed" ELSE connection

\* a lost connection ends the consumer like any other error
Handle_StopsOnConnectionError(c, e) ==
    LET connection == IF e.connection = "same" THEN c.connection ELSE e.connection
        logged == Append(c.log, e.exc)
    IN IF e.exc \in {"none", "KeyboardInterrupt"}
       THEN [c EXCEPT !.pc = IF e.exc = "none" THEN "top" ELSE "stopped",
                      !.connection = IF e.exc = "none" THEN connection
                                     ELSE CloseIfOpen(connection),
                      !.log = logged]
       ELSE [c EXCEPT !.pc = "raised", !.connection = CloseIfOpen(connection),
                      !.log = logged]

\* the end of the try block and the three except clauses of start
Handle(c, e) ==
    LET connection == IF e.connection = "same" THEN c.connection ELSE e.connection
        logged == Append(c.log, e.exc)
    IN IF e.exc = "none"
       THEN [c EXCEPT !.pc = "top", !.connection = connection, !.log = logged]
       ELSE IF e.exc = "KeyboardInterrupt"
       THEN [c EXCEPT !.pc = "stopped", !.connection = CloseIfOpen(connection),
                      !.log = logged]
       ELSE IF e.exc = "AMQPConnectionError"
       THEN [c EXCEPT !.pc = "top", !.connection = connection, !.log = logged]
       ELSE IF e.exc \in {"AMQPChannelError", "Exception"}
       THEN [c EXCEPT !.pc = "raised", !.connection = CloseIfOpen(connection),
                      !.log = logged]
       ELSE [c EXCEPT !.pc = "raised", !.connection = connection, !.log = logged]

\* consumer.start() is called
Start ==
    /\ consumer.pc = "idle"
    /\ consumer' = [consumer EXCEPT !.pc = "top"]
    /\ UNCHANGED <<thresholds, scores, pc, evaluation, decision, analysis, vp, adjust,
                   calls, deliveries, revalidation>>

\* the head of an iteration: connect when the connection is absent or closed
Iteration(e) ==
    /\ consumer.pc = "top"
    /\ consumer.iterations < MaxIterations
    /\ LET c == [consumer EXCEPT !.iterations = @ + 1, !.connected = FALSE]
       IN IF consumer.connection \in {"none", "closed"}
          THEN /\ e \in ConnectEvents
               /\ consumer' =
                     IF e.exc = "none"
                     THEN [c EXCEPT !.pc = "consuming", !.connection = "open",
                                    !.connected = TRUE]
                     ELSE Handle([c EXCEPT !.connected = TRUE], e)
          ELSE /\ e = Event("none", "open")
               /\ consumer' = [c EXCEPT !.pc = "consuming"]
    /\ UNCHANGED <<thresholds, scores, pc, evaluation, decision, analysis, vp, adjust,
                   calls, deliveries, revalidation>>

\* basic_qos, basic_consume, start_consuming until it returns or raises
Consume(e) ==
    /\ consumer.pc = "consuming"
    /\ consumer' = Handle(consumer, e)
    /\ UNCHANGED <<thresholds, scores, pc, evaluation, decision, analysis, vp, adjust,
                   calls, deliveries, revalidation>>

NextStart ==
    \/ Start
    \/ \E e \in ConnectEvents \cup {Event("none", "open")} : Iteration(e)
    \/ \E e \in ConsumeEvents : Consume(e)

SpecStart == Init /\ [][NextStart]_vars

---------------------------------------------------------------------------
(* Vocabulary of the properties *)

Called == pc \in {"evaluated", "decided"} /\ evaluation.status # "none"

EngineReturned == Called /\ evaluation.status = "returned"

Decided == pc = "decided"

InList(x, list) == \E i \in 1..Len(list) : list[i] = x

KnownInput == {i \in 1..Len(scores) : scores[i].criterion \in DOMAIN thresholds}

\* entry i of the input reports a required sub-metric below its min_value
RequiredBelowMin(i) ==
    LET c == scores[i].criterion
        d == scores[i].result.details
    IN \E j \in 1..Len(d) :
          /\ d[j].metric \in DOMAIN thresholds[c]
          /\ thresholds[c][d[j].metric].required
          /\ d[j].value < thresholds[c][d[j].metric].min_value

\* every configured sub-metric of entry i is at or above its min_value
AllMeetMin(i) ==
    LET c == scores[i].criterion
        d == scores[i].result.details
    IN \A j \in 1..Len(d) :
          d[j].metric \in DOMAIN thresholds[c]
             => d[j].value >= thresholds[c][d[j].metric].min_value

\* the sum of the scores of the input's criteria that are in valid_scores
ValidTotal(ev) ==
    SumSeq([i \in 1..Len(scores) |->
              IF scores[i].criterion \in DOMAIN ev.valid_scores
              THEN ev.valid_scores[scores[i].criterion].score
              ELSE 0])

---------------------------------------------------------------------------
(* Decision Policy *)

\* C1: whenever the Evaluation handed to _make_decision has a non-empty
\* missing_required, the decision is needs_improvement, whatever final_score
\* holds.
C1_MissingRequiredTakesPrecedence ==
    (Decided /\ evaluation.value.missing_required # <<>>)
        => decision = "needs_improvement"

C1_Witness ==
    /\ Decided
    /\ evaluation.value.missing_required # <<>>
    /\ evaluation.value.final_score >= 7 * FinalUnit
    /\ decision = "needs_improvement"

\* C2: with empty missing_required and a present final_score the decision is
\* approve iff final_score >= 7.0, review iff 5.0 <= final_score < 7.0 and
\* reject iff final_score < 5.0.
C2_ScoreBands ==
    (Decided /\ evaluation.value.missing_required = <<>>
             /\ evaluation.value.final_score # None)
        => LET f == evaluation.value.final_score
           IN /\ decision \in {"approve", "review", "reject"}
              /\ decision = "approve" <=> f >= 7 * FinalUnit
              /\ decision = "review" <=> (f >= 5 * FinalUnit /\ f < 7 * FinalUnit)
              /\ decision = "reject" <=> f < 5 * FinalUnit

C2_Witness ==
    /\ Decided
    /\ evaluation.value.missing_required = <<>>
    /\ evaluation.value.final_score = 7 * FinalUnit
    /\ decision = "approve"

---------------------------------------------------------------------------
(* Aggregation Engine *)

\* C3: in every Evaluation the engine returns, final_score is absent when
\* missing_required is non-empty, and a present final_score is the unweighted
\* mean of the scores of exactly the criteria in valid_scores.
C3_FinalScoreIsMeanOfValid ==
    EngineReturned =>
        LET ev == evaluation.value
        IN /\ ev.missing_required # <<>> => ev.final_score = None
           /\ ev.final_score # None =>
                 /\ DOMAIN ev.valid_scores # {}
                 /\ ev.final_score * Cardinality(DOMAIN ev.valid_scores)
                       = ValidTotal(ev) * MeanUnit

C3_Witness ==
    /\ EngineReturned
    /\ evaluation.value.final_score # None
    /\ \E c1, c2 \in DOMAIN evaluation.value.valid_scores :
          evaluation.value.valid_scores[c1].score
             # evaluation.value.valid_scores[c2].score

\* C4: after a call, every known criterion of the input that reports a
\* required sub-metric below its min_value is in invalid_scores and in
\* missing_required of the returned Evaluation, whatever other keys its
\* details hold and in whatever order.
C4_RequiredFailureIsReported ==
    Called =>
        \A i \in KnownInput :
            RequiredBelowMin(i) =>
                /\ evaluation.status = "returned"
                /\ scores[i].criterion \in DOMAIN evaluation.value.invalid_scores
                /\ InList(scores[i].criterion, evaluation.value.missing_required)

\* the input without the sub-metric keys the registry does not configure
WithoutUnconfigured(s) ==
    [i \in 1..Len(s) |->
        IF s[i].criterion \in DOMAIN thresholds
        THEN LET Configured(e) == e.metric \in DOMAIN thresholds[s[i].criterion]
             IN [s[i] EXCEPT !.result.details = SelectSeq(@, Configured)]
        ELSE s[i]]

\* C5: a call returns, and returns the Evaluation it returns for the same
\* input with the unconfigured sub-metric keys removed.
C5_UnconfiguredKeysAreIgnored ==
    Called =>
        /\ evaluation.status = "returned"
        /\ evaluation = evaluate_practice(thresholds, WithoutUnconfigured(scores))

\* C6: when every configured sub-metric of every criterion of the input is at
\* or above its min_value, the call returns with missing_required and
\* invalid_scores empty, and with a final_score when the input holds a known
\* criterion.
C6_AllMeetingMinIsValid ==
    (Called /\ \A i \in KnownInput : AllMeetMin(i)) =>
        /\ evaluation.status = "returned"
        /\ evaluation.value.missing_required = <<>>
        /\ DOMAIN evaluation.value.invalid_scores = {}
        /\ KnownInput # {} => evaluation.value.final_score # None

C6_Witness ==
    /\ Called
    /\ Len(scores) = Len(AnalyzerOrder)
    /\ \A i \in KnownInput : AllMeetMin(i)
    /\ \E i \in KnownInput : \E j \in 1..Len(scores[i].result.details) :
          LET e == scores[i].result.details[j]
              c == scores[i].criterion
          IN /\ e.metric \in DOMAIN thresholds[c]
             /\ thresholds[c][e.metric].required
             /\ e.value = thresholds[c][e.metric].min_value
    /\ evaluation.value.final_score # None

\* C7: reliability_score of a returned Evaluation, which validate_practice
\* copies into its report, is the engine score of "Rel" when "Rel" is in
\* valid_scores and is absent otherwise.
C7_ReliabilityScoreIsRelScore ==
    EngineReturned =>
        LET ev == evaluation.value
        IN IF "Rel" \in DOMAIN ev.valid_scores
           THEN ev.reliability_score = ev.valid_scores["Rel"].score
           ELSE ev.reliability_score = None

---------------------------------------------------------------------------
(* Analyzers and orchestrator *)

\* C8: analyze(practice) of each of the six configured analyzers returns a
\* CriterionResult and never raises, and returns the neutral default when its
\* internal computation fails or produces a malformed result.
C8_AnalyzeIsTotal ==
    analysis.status = "done" =>
        /\ analysis.outcome.status = "returned"
        /\ analysis.internal # "result" => analysis.outcome.value = NeutralDefault

ValidateFinished == vp.pc \in {"returned", "raised"}

\* C9: validate_practice returns a report also when an analyzer fails
\* internally; the failing criterion is represented by the neutral default
\* and no exception reaches the caller.
C9_ValidateIsTotal ==
    ValidateFinished =>
        /\ vp.result.status = "returned"
        /\ \A i \in 1..Len(vp.scores) :
              vp.scores[i].criterion \in vp.failed
                 => vp.scores[i].result = NeutralDefault

\* C10: when validate_practice has started the engine, all six analyzer
\* invocations have completed and every entry handed to evaluate_practice is
\* a completed CriterionResult, never an un-awaited task.
C10_NoPartialAggregation ==
    (ValidateFinished /\ evaluation.status # "none") =>
        /\ ScoreKeys(vp.scores) = KnownCriteria
        /\ \A i \in 1..Len(vp.scores) : vp.scores[i].result.kind = "dict"

---------------------------------------------------------------------------
(* Threshold Registry *)

Configured(c, m) == c \in DOMAIN thresholds /\ m \in DOMAIN thresholds[c]

\* C11: an adjust_threshold call sets exactly the supplied fields of its
\* (criterion, metric) pair to the supplied values and leaves the pair's
\* other fields and every other Threshold as they were, after any sequence
\* of calls.
C11_AdjustChangesOnlySuppliedFields ==
    [][adjust'.count = adjust.count + 1 =>
         /\ DOMAIN thresholds' = DOMAIN thresholds
         /\ \A c \in DOMAIN thresholds :
              /\ DOMAIN thresholds'[c] = DOMAIN thresholds[c]
              /\ \A m \in DOMAIN thresholds[c] :
                   LET target == c = adjust'.criterion /\ m = adjust'.metric
                       old == thresholds[c][m]
                       new == thresholds'[c][m]
                   IN /\ new.min_value =
                            IF target /\ adjust'.min_value # NoArg
                            THEN adjust'.min_value[1] ELSE old.min_value
                      /\ new.weight =
                            IF target /\ adjust'.weight # NoArg
                            THEN adjust'.weight[1] ELSE old.weight
                      /\ new.required =
                            IF target /\ adjust'.required # NoArg
                            THEN adjust'.required[1] ELSE old.required]_vars

C11_Witness ==
    /\ adjust.count = 2
    /\ Configured(adjust.criterion, adjust.metric)
    /\ adjust.min_value = NoArg
    /\ adjust.weight = Some(WeightUnit)
    /\ adjust.required = Some(FALSE)
    /\ thresholds[adjust.criterion][adjust.metric]
          = CriterionThreshold(4, WeightUnit, FALSE)

---------------------------------------------------------------------------
(* Determinism of the engine *)

---------------------------------------------------------------------------
(* Failure outcomes of the core *)

NoneValid == Decided /\ DOMAIN evaluation.value.valid_scores = {}

\* C13 as stated: whenever valid_scores is empty the outcome is final_score
\* absent and decision incomplete.
C13_EmptyValidIsIncomplete ==
    NoneValid =>
        /\ evaluation.value.final_score = None
        /\ decision = "incomplete"

\* C13: when valid_scores is empty, final_score is absent; the decision is
\* incomplete exactly when no criterion was evaluated at all (no results
\* supplied, or only unknown criterion ids), and needs_improvement when some
\* criterion was evaluated invalid.
C13_EmptyValidOutcome ==
    NoneValid =>
        LET ev == evaluation.value
        IN /\ ev.final_score = None
           /\ decision \in {"incomplete", "needs_improvement"}
           /\ decision = "incomplete" <=> KnownInput = {}
           /\ decision = "needs_improvement" <=> DOMAIN ev.invalid_scores # {}
           /\ scores = <<>> => decision = "incomplete"

C13_Witness ==
    /\ NoneValid
    /\ DOMAIN evaluation.value.invalid_scores # {}
    /\ evaluation.value.final_score = None
    /\ decision = "needs_improvement"

ZeroCriteria == Called /\ scores = <<>>

---------------------------------------------------------------------------
(* End-to-end example *)

\* the six criteria each report one sub-metric of value 8.0 whose Threshold
\* is {min_value 6.0, weight 1.0, required true}
SixSingleEights ==
    /\ ScoreKeys(scores) = KnownCriteria
    /\ \A i \in 1..Len(scores) :
          LET c == scores[i].criterion
              d == scores[i].result.details
          IN /\ Len(d) = 1
             /\ d[1].value = 8
             /\ Configured(c, d[1].metric)
             /\ thresholds[c][d[1].metric] = ExampleThreshold

\* C15: when each of the six criteria reports a single sub-metric of value
\* 8.0 whose Threshold is {6.0, 1.0, required}, the call returns with all six
\* criteria in valid_scores and final_score 8.0, and the decision is approve.
C15_SixEightsAreApproved ==
    (Called /\ SixSingleEights) =>
        /\ evaluation.status = "returned"
        /\ DOMAIN evaluation.value.valid_scores = KnownCriteria
        /\ DOMAIN evaluation.value.invalid_scores = {}
        /\ evaluation.value.final_score = 8 * FinalUnit
        /\ Decided => decision = "approve"

C15_Witness ==
    /\ Decided
    /\ SixSingleEights
    /\ evaluation.value.final_score = 8 * FinalUnit
    /\ decision = "approve"

---------------------------------------------------------------------------
(* Independence of calls *)

CallFinished(k) == calls[k].outcome # NoOutcome

\* C16: whatever the interleaving of the calls in progress and whatever calls
\* came before, each finished call has the outcome evaluate_practice has for
\* its input when run alone.
C16_CallsAreIndependent ==
    \A k \in 1..Len(calls) :
        CallFinished(k) =>
            calls[k].outcome = evaluate_practice(thresholds, calls[k].input)

C16_Witness ==
    /\ Len(calls) = 2
    /\ calls[1].input # calls[2].input
    /\ calls[1].input # <<>>
    /\ calls[2].outcome.status = "returned"
    /\ calls[2].outcome.value.final_score # None
    /\ calls[1].outcome = NoOutcome
    /\ calls[1].i = 2
    /\ calls[1].result.missing_required # <<>>

---------------------------------------------------------------------------
(* Unknown criterion ids *)

UnknownInput == {i \in 1..Len(scores) : scores[i].criterion \notin DOMAIN thresholds}

\* the input without the entries whose criterion id the registry does not hold
WithoutUnknown(s) ==
    LET Known(e) == e.criterion \in DOMAIN thresholds
    IN SelectSeq(s, Known)

\* C17: a criterion id of the input that the registry does not hold is in
\* none of valid_scores, invalid_scores, missing_required and recommendations,
\* and the outcome of the call is the outcome for the input without that id.
C17_UnknownCriteriaAreIgnored ==
    Called =>
        /\ evaluation = evaluate_practice(thresholds, WithoutUnknown(scores))
        /\ evaluation.status = "returned" =>
              \A i \in UnknownInput :
                 LET c == scores[i].criterion
                     ev == evaluation.value
                 IN /\ c \notin DOMAIN ev.valid_scores
                    /\ c \notin DOMAIN ev.invalid_scores
                    /\ ~InList(c, ev.missing_required)
                    /\ \A j \in 1..Len(ev.recommendations) :
                          ev.recommendations[j][1] # c

C17_Witness ==
    /\ EngineReturned
    /\ UnknownInput # {}
    /\ KnownInput # {}
    /\ 1 \in UnknownInput
    /\ evaluation.value.final_score # None

---------------------------------------------------------------------------
(* Criterion evaluation: _evaluate_criterion *)

\* the CriterionEvaluation of criterion c in a returned Evaluation
Evaluated(c) ==
    IF c \in DOMAIN evaluation.value.valid_scores
    THEN evaluation.value.valid_scores[c]
    ELSE evaluation.value.invalid_scores[c]

\* entry i of the input without its j-th sub-metric
WithoutDetail(i, j) ==
    LET d == scores[i].result.details
    IN [scores[i].result EXCEPT !.details =
           SubSeq(d, 1, j - 1) \o SubSeq(d, j + 1, Len(d))]

\* C18: in a returned Evaluation, the is_valid of a known criterion is false
\* iff one of its configured required sub-metrics is below its min_value (a
\* value equal to min_value does not count), and each configured sub-metric
\* that is not required adds its value times its weight to the score, without
\* changing is_valid, whatever its value.
C18_OnlyRequiredInvalidates ==
    EngineReturned =>
        \A i \in KnownInput :
            LET c == scores[i].criterion
                d == scores[i].result.details
                cr == Evaluated(c)
            IN /\ cr.is_valid <=> ~RequiredBelowMin(i)
               /\ cr.is_valid <=> c \in DOMAIN evaluation.value.valid_scores
               /\ \A j \in 1..Len(d) :
                     (Configured(c, d[j].metric) /\ ~thresholds[c][d[j].metric].required)
                        => LET rest == evaluate_criterion(thresholds, c, WithoutDetail(i, j))
                           IN /\ cr.is_valid = rest.is_valid
                              /\ cr.score = rest.score
                                    + d[j].value * thresholds[c][d[j].metric].weight

C18_Witness ==
    /\ EngineReturned
    /\ \E i \in KnownInput :
          LET c == scores[i].criterion
              d == scores[i].result.details
          IN /\ Len(d) = 2
             /\ Configured(c, d[1].metric) /\ Configured(c, d[2].metric)
             /\ thresholds[c][d[1].metric].required
             /\ d[1].value = thresholds[c][d[1].metric].min_value
             /\ ~thresholds[c][d[2].metric].required
             /\ d[2].value < thresholds[c][d[2].metric].min_value
             /\ c \in DOMAIN evaluation.value.valid_scores

\* what sub-metric j of entry i contributes to the score of its criterion
Contribution(i, j) ==
    LET c == scores[i].criterion
        e == scores[i].result.details[j]
    IN IF Configured(c, e.metric)
          /\ (e.value >= thresholds[c][e.metric].min_value
                 \/ ~thresholds[c][e.metric].required)
       THEN e.value * thresholds[c][e.metric].weight
       ELSE 0

\* C19: in a returned Evaluation, the score of a known criterion is the sum
\* of value * weight over its sub-metrics classified valid; invalid and
\* unconfigured sub-metrics add nothing, and the score is 0.0 when none is
\* valid.
C19_ScoreSumsValidMetrics ==
    EngineReturned =>
        \A i \in KnownInput :
            Evaluated(scores[i].criterion).score
               = SumSeq([j \in 1..Len(scores[i].result.details) |-> Contribution(i, j)])

C19_Witness ==
    /\ EngineReturned
    /\ \E i \in KnownInput :
          LET c == scores[i].criterion
          IN /\ c \in DOMAIN evaluation.value.invalid_scores
             /\ evaluation.value.invalid_scores[c].score > 0
             /\ \E j \in 1..Len(scores[i].result.details) :
                   /\ Contribution(i, j) = 0
                   /\ scores[i].result.details[j].value > 0

\* the entries of call k's input that are known criteria with empty details
EmptyDetails(k) ==
    {i \in 1..Len(calls[k].input) :
        /\ calls[k].input[i].criterion \in DOMAIN thresholds
        /\ calls[k].input[i].result.kind = "dict"
        /\ calls[k].input[i].result.details = <<>>}

\* C20: a known criterion reported with empty details, the analyzers' failure
\* fallback included, is in valid_scores with score 0.0 and is_valid true, and
\* a present final_score is the mean over valid_scores with that 0.0 counted.
C20_EmptyDetailsIsValidZero ==
    \A k \in 1..Len(calls) :
        calls[k].outcome.status = "returned" =>
            \A i \in EmptyDetails(k) :
                LET c == calls[k].input[i].criterion
                    ev == calls[k].outcome.value
                IN /\ c \in DOMAIN ev.valid_scores
                   /\ c \notin DOMAIN ev.invalid_scores
                   /\ ev.valid_scores[c].score = 0
                   /\ ev.valid_scores[c].is_valid
                   /\ ev.final_score # None =>
                         ev.final_score * Cardinality(DOMAIN ev.valid_scores)
                            = SumScores(ev.valid_scores) * MeanUnit

C20_Witness ==
    \E k \in 1..Len(calls) :
        /\ calls[k].outcome.status = "returned"
        /\ calls[k].input # <<>>
        /\ calls[k].input[1].result = NeutralDefault
        /\ DOMAIN calls[k].outcome.value.valid_scores = {"Q", "Rel"}
        /\ calls[k].outcome.value.valid_scores["Rel"].score = 10 * WeightUnit
        /\ calls[k].outcome.value.final_score = 5 * FinalUnit

---------------------------------------------------------------------------
(* Recommendations *)

\* the known criteria of the input whose engine score is below 6.0, as the
\* recommendation entries of a returned Evaluation, in input order
LowScoring ==
    LET Low(e) == /\ e.criterion \in DOMAIN thresholds
                  /\ Evaluated(e.criterion).score < 6 * WeightUnit
        low == SelectSeq(scores, Low)
    IN [i \in 1..Len(low) |-> <<low[i].criterion, low[i].result.explanation>>]

\* C21: recommendations of a returned Evaluation holds, in input order, one
\* entry for each known criterion whose engine score is below 6.0 and nothing
\* else, whether the criterion is valid or invalid.
C21_RecommendationsFollowScore ==
    EngineReturned => evaluation.value.recommendations = LowScoring

C21_Witness ==
    /\ EngineReturned
    /\ Len(scores) = 2
    /\ scores[1].criterion \in DOMAIN evaluation.value.invalid_scores
    /\ evaluation.value.invalid_scores[scores[1].criterion].score >= 6 * WeightUnit
    /\ scores[2].criterion \in DOMAIN evaluation.value.valid_scores
    /\ evaluation.value.valid_scores[scores[2].criterion].score < 6 * WeightUnit
    /\ evaluation.value.recommendations = <<<<scores[2].criterion, "why">>>>

---------------------------------------------------------------------------
(* The analyzer's own score *)

AlternativeScores == {0, 2, 9, 10}

\* the input s with the score field of entry i replaced by alt[i]
WithScores(s, alt) ==
    [i \in 1..Len(s) |-> [s[i] EXCEPT !.result.score = alt[i]]]

\* C22: the outcome of a call and the decision on it are those of every input
\* that differs from the call's input only in the score fields of its
\* CriterionResults.
C22_AnalyzerScoreIsIgnored ==
    Called =>
        \A alt \in [1..Len(scores) -> AlternativeScores] :
            LET other == evaluate_practice(thresholds, WithScores(scores, alt))
            IN /\ other = evaluation
               /\ (Decided /\ other.status = "returned")
                     => make_decision(other.value) = decision

C22_Witness ==
    /\ Decided
    /\ Len(scores) = 2
    /\ scores[1].result.score = 9
    /\ scores[2].result.score = 2
    /\ evaluation.value.final_score # None
    /\ evaluation.value.final_score < 5 * FinalUnit
    /\ decision = "reject"

---------------------------------------------------------------------------
(* Score bound *)

\* the sum of the weights the registry configures for criterion c
WeightSum(c) ==
    SumSeq([i \in 1..Len(MetricOrder[c]) |-> thresholds[c][MetricOrder[c][i]].weight])

\* every sub-metric value of entry i is in [0, 10]
ValuesInRange(i) ==
    \A j \in 1..Len(scores[i].result.details) :
        /\ scores[i].result.details[j].value >= 0
        /\ scores[i].result.details[j].value <= 10

\* C23: in a returned Evaluation the score of a known criterion whose
\* sub-metric values are all in [0, 10] is between 0 and 10 times the sum of
\* the criterion's weights; under the default registry that score, and a
\* present final_score of an input with all values in range, is in [0, 10].
C23_ScoreIsBounded ==
    EngineReturned =>
        /\ \A i \in KnownInput :
              ValuesInRange(i) =>
                  LET score == Evaluated(scores[i].criterion).score
                  IN /\ score >= 0
                     /\ score <= 10 * WeightSum(scores[i].criterion)
                     /\ thresholds = DefaultThresholds => score <= 10 * WeightUnit
        /\ (/\ thresholds = DefaultThresholds
            /\ \A i \in KnownInput : ValuesInRange(i)
            /\ evaluation.value.final_score # None)
              => /\ evaluation.value.final_score >= 0
                 /\ evaluation.value.final_score <= 10 * FinalUnit

C23_Witness ==
    /\ EngineReturned
    /\ Len(scores) = 1
    /\ ValuesInRange(1)
    /\ WeightSum(scores[1].criterion) > WeightUnit
    /\ Evaluated(scores[1].criterion).score = 10 * WeightSum(scores[1].criterion)
    /\ evaluation.value.final_score > 10 * FinalUnit

---------------------------------------------------------------------------
(* Shape of a returned Evaluation *)

\* the criteria of the input that are in invalid_scores, in input order
InvalidInOrder ==
    LET Invalid(e) == e.criterion \in DOMAIN evaluation.value.invalid_scores
        invalid == SelectSeq(scores, Invalid)
    IN [i \in 1..Len(invalid) |-> invalid[i].criterion]

\* C24: in a returned Evaluation valid_scores and invalid_scores are
\* disjoint, together they hold exactly the known criteria of the input, and
\* missing_required lists the keys of invalid_scores, each once, in input
\* order.
C24_EvaluationPartitionsInput ==
    EngineReturned =>
        LET ev == evaluation.value
        IN /\ DOMAIN ev.valid_scores \cap DOMAIN ev.invalid_scores = {}
           /\ DOMAIN ev.valid_scores \cup DOMAIN ev.invalid_scores
                 = {scores[i].criterion : i \in KnownInput}
           /\ ev.missing_required = InvalidInOrder

C24_Witness ==
    /\ EngineReturned
    /\ Len(scores) = 2
    /\ evaluation.value.missing_required = <<"Rel", "Q">>
    /\ DOMAIN evaluation.value.invalid_scores = {"Q", "Rel"}

\* some known criterion of the input is evaluated invalid
HasInvalidCriterion == \E i \in KnownInput : RequiredBelowMin(i)

\* C25: final_score of a returned Evaluation is present iff the input holds a
\* known criterion and invalid_scores is empty; the decision is incomplete
\* only for an input without a known criterion, and every input with an
\* invalid criterion is decided needs_improvement.
C25_FinalScoreIffAllValid ==
    Called =>
        /\ evaluation.status = "returned" =>
              (evaluation.value.final_score # None
                  <=> (KnownInput # {} /\ DOMAIN evaluation.value.invalid_scores = {}))
        /\ (Decided /\ decision = "incomplete") => KnownInput = {}
        /\ HasInvalidCriterion =>
              /\ evaluation.status = "returned"
              /\ Decided => decision = "needs_improvement"

---------------------------------------------------------------------------
(* Keys of the Threshold Registry *)

\* the (criterion, sub-metric) keys of a registry
KeySet(th) == UNION {{<<c, m>> : m \in DOMAIN th[c]} : c \in DOMAIN th}

\* C26: after every adjust_threshold and evaluate_practice call the registry
\* has the keys of the default table, and an adjust_threshold call on an
\* unknown criterion or unknown sub-metric leaves the registry as it was.
C26_RegistryKeysAreFixed ==
    [][/\ KeySet(thresholds') = KeySet(DefaultThresholds)
       /\ (adjust'.count = adjust.count + 1
             /\ ~Configured(adjust'.criterion, adjust'.metric))
            => thresholds' = thresholds]_vars

C26_Witness ==
    /\ adjust.count = MaxAdjust
    /\ Configured("Q", adjust.metric)
    /\ adjust.criterion = "Q"
    /\ adjust.min_value = Some(8)
    /\ thresholds # DefaultThresholds
    /\ KeySet(thresholds) = KeySet(DefaultThresholds)
    /\ evaluation.status = "returned"
    /\ DOMAIN evaluation.value.invalid_scores = {"Q"}

---------------------------------------------------------------------------
(* Registry mutation during an evaluation *)

RaceReturned == pc = "evaluated" /\ calls # <<>> /\ evaluation.status = "returned"

\* C27 as stated: the Evaluation of a call that overlapped adjust_threshold
\* calls is the one of a registry that existed during the call, every
\* criterion of invalid_scores is in missing_required, and final_score is
\* absent when invalid_scores is non-empty.
C27_EvaluationIsAtomic ==
    RaceReturned =>
        LET ev == evaluation.value
        IN /\ \E th \in calls[1].seen : evaluation = evaluate_practice(th, scores)
           /\ \A c \in DOMAIN ev.invalid_scores : InList(c, ev.missing_required)
           /\ DOMAIN ev.invalid_scores # {} => ev.final_score = None

\* C27: a call that overlapped no adjust_threshold call returns the
\* Evaluation of the registry; a call that overlapped one may mix registries,
\* and then still valid_scores and invalid_scores partition the known
\* criteria of the input, missing_required lists criteria of invalid_scores
\* only, and a present final_score is the mean of valid_scores with
\* missing_required empty.
C27_RaceKeepsShapeOnly ==
    RaceReturned =>
        LET ev == evaluation.value
        IN /\ calls[1].seen = {thresholds}
                => evaluation = evaluate_practice(thresholds, scores)
           /\ DOMAIN ev.valid_scores \cap DOMAIN ev.invalid_scores = {}
           /\ DOMAIN ev.valid_scores \cup DOMAIN ev.invalid_scores
                 = {scores[i].criterion : i \in KnownInput}
           /\ \A k \in 1..Len(ev.missing_required) :
                 ev.missing_required[k] \in DOMAIN ev.invalid_scores
           /\ ev.final_score # None =>
                 /\ ev.missing_required = <<>>
                 /\ DOMAIN ev.valid_scores # {}
                 /\ ev.final_score * Cardinality(DOMAIN ev.valid_scores)
                       = SumScores(ev.valid_scores) * MeanUnit

C27_Witness ==
    /\ RaceReturned
    /\ adjust.count = 1
    /\ adjust.required = Some(FALSE)
    /\ DOMAIN evaluation.value.invalid_scores = {"Q"}
    /\ evaluation.value.missing_required = <<>>
    /\ evaluation.value.final_score # None

---------------------------------------------------------------------------
(* Message consumer *)

\* delivery d went through fetch, analysis with sota_score and a ledger
\* transaction of status 1
FullyProcessed(d) ==
    /\ d.body = "practice_id"
    /\ d.fetch = "data"
    /\ run_until_complete(d.analysis) = Returned("sota_score")
    /\ run_until_complete(d.tx) = Returned("status_1")
    /\ ~(d.connection = "closed" /\ d.reconnect = "raises")

---------------------------------------------------------------------------
(* Revalidation script *)

\* C29: in revalidate_all, after every iteration processed = success +
\* failed and processed <= total; every iteration that failed has its
\* practice recorded in failures and the loop goes on to the next practice;
\* a result returned after the list was obtained has processed = total.
C29_RevalidationCountsAddUp ==
    revalidation.pc \in {"loop", "returned"} =>
        LET r == revalidation.results
        IN /\ r.processed = r.success + r.failed
           /\ r.processed <= r.total
           /\ revalidation.listed =>
                 /\ r.processed = revalidation.at
                 /\ Len(r.failures) = r.failed
                 /\ Len(r.validations) = r.success
                 /\ \A k \in 1..Len(r.failures) : InList(r.failures[k].id, revalidation.ids)
                 /\ revalidation.pc = "returned" => r.processed = r.total

C29_Witness ==
    /\ revalidation.pc = "returned"
    /\ revalidation.listed
    /\ revalidation.results.total = 2
    /\ revalidation.results.failed = 2
    /\ revalidation.results.failures[1].error = "ClientResponseError"
    /\ revalidation.results.failures[2].error = "TypeError"

---------------------------------------------------------------------------
(* Consumer loop *)

LastLogged(c) == IF c.log = <<>> THEN "none" ELSE c.log[Len(c.log)]

\* C30: start leaves its loop only on KeyboardInterrupt, with the connection
\* not left open, or with an exception that is not an AMQPConnectionError;
\* an AMQPConnectionError leads back to the head of the loop; and an
\* iteration reaches consuming only with an open connection, which it made
\* by connecting when the connection was absent or closed.
C30_StartLoopExits ==
    [][/\ (consumer.pc \in {"top", "consuming"} /\ consumer'.pc \in {"stopped", "raised"}) =>
             \/ /\ consumer'.pc = "stopped"
                /\ LastLogged(consumer') = "KeyboardInterrupt"
                /\ consumer'.connection # "open"
             \/ /\ consumer'.pc = "raised"
                /\ LastLogged(consumer') \notin {"none", "KeyboardInterrupt", "AMQPConnectionError"}
       /\ (Len(consumer'.log) > Len(consumer.log) /\ LastLogged(consumer') = "AMQPConnectionError") =>
             consumer'.pc = "top"
       /\ (consumer.pc = "top" /\ consumer'.pc = "consuming") =>
             /\ consumer'.connection = "open"
             /\ consumer.connection \in {"none", "closed"} => consumer'.connected
      ]_vars

C30_Witness ==
    /\ consumer.pc = "consuming"
    /\ consumer.iterations = 2
    /\ consumer.log = <<"AMQPConnectionError">>
    /\ consumer.connection = "open"
    /\ consumer.connected

====
